---- MODULE Spec2Model ----
(***************************************************************************)
(* Model of subfuncs/find_and_split.py: the pipeline that probes the       *)
(* duration of an audio file, detects its silences, plans split points at  *)
(* the silences nearest to a moving target, extracts one clip per planned  *)
(* segment and writes a JSON manifest.                                     *)
(*                                                                         *)
(* Times are Python floats in the program.  Here a time is an integer      *)
(* number of ticks, TicksPerSec ticks to the second, and all arithmetic is *)
(* exact.  Every marker time is an even number of ticks, so the midpoint   *)
(* start + (end - start) / 2 is exact.                                     *)
(***************************************************************************)
EXTENDS Integers, Sequences, FiniteSets

VARIABLES
    pc,              \* position of the run in the script
    exit_code,       \* process exit status, meaningful when pc = "exited"
    target_seconds,  \* __main__: target_minutes * 60
    probe_result,    \* what ffprobe returned to get_total_duration
    total_duration,  \* total_duration_secs
    detect_result,   \* what ffmpeg silencedetect returned to find_silences
    silences,        \* detected_silences: sequence of <<start, end>>
    current_pos,     \* split_audio: cursor
    clip_num,        \* split_audio: number of the next clip
    split_point,     \* split_audio: end of the segment being planned
    clip_manifest,   \* split_audio: in-memory list of manifest entries
    extract_calls,   \* log of the ffmpeg stream-copy invocations
    clip_files,      \* clip files this run has produced in output_dir
    manifest_file    \* <<>> while unwritten, <<contents>> once written

vars == <<pc, exit_code, target_seconds, probe_result, total_duration,
          detect_result, silences, current_pos, clip_num, split_point,
          clip_manifest, extract_calls, clip_files, manifest_file>>

----------------------------------------------------------------------------
(* Time base and inputs *)

\* resolution of the model's clock: microseconds
TicksPerSec == 10 ^ 6

\* round(current_pos, 4)
ManifestDecimals == 4

\* if split_point - current_pos < 1.0
MinimumSegmentLength == 1 * TicksPerSec

\* most markers a modelled silencedetect output holds
MaxMarkers == 5

\* argv[2] values that parse, in millionths of a minute: 0, 0.01, 0.025, 0.05
DurationMinutes == {0, 10000, 25000, 50000}

\* durations ffprobe may print: 1.8 s, 4.5 s and 7 s
ProbeDurations == {1800000, 4500000, 7000000}

\* times silencedetect may print, ascending: 0.2, 1, 3, 3.00014, 3.5, 4.5 s
MarkerTimes == <<200000, 1000000, 3000000, 3000140, 3500000, 4500000>>

MarkerKinds == {"none", "silence_start", "silence_end"}

----------------------------------------------------------------------------
(* Pure helpers *)

Abs(x) == IF x < 0 THEN 0 - x ELSE x

\* start + (end - start) / 2
Mid(s) == s[1] + (s[2] - s[1]) \div 2

\* Round4 that truncates to 4 decimals instead of rounding to nearest
Truncate4(x) == x - (x % (TicksPerSec \div (10 ^ ManifestDecimals)))

\* round(x, 4) for x >= 0: nearest multiple of 10^-4 s, halves to even
Round4(x) ==
    LET q  == TicksPerSec \div (10 ^ ManifestDecimals)
        r  == x % q
        lo == x - r
    IN  IF 2 * r < q THEN lo
        ELSE IF 2 * r > q THEN lo + q
        ELSE IF (lo \div q) % 2 = 0 THEN lo ELSE lo + q

\* the stderr text of silencedetect, reduced to its markers in emission order
Stderr(f) ==
    LET all == [i \in 1..Len(MarkerTimes) |-> [kind |-> f[i], t |-> MarkerTimes[i]]]
        IsMarker(m) == m.kind # "none"
    IN  SelectSeq(all, IsMarker)

\* re.findall(r"<kind>: (\d+\.?\d*)", output), each match converted by float()
FindAll(kind, output) ==
    LET OfKind(m) == m.kind = kind
        hits == SelectSeq(output, OfKind)
    IN  [i \in 1..Len(hits) |-> hits[i].t]

\* NoSilences that exits only when both lists are empty
NoSilencesAtAll(start_times, end_times) == start_times = <<>> /\ end_times = <<>>

\* if not start_times or not end_times: sys.exit(1)
NoSilences(start_times, end_times) == start_times = <<>> \/ end_times = <<>>

\* Zip that aligns the two lists at their last elements
ZipFromEnd(start_times, end_times) ==
    LET ls == Len(start_times)
        le == Len(end_times)
        n  == IF ls < le THEN ls ELSE le
    IN  [i \in 1..n |-> <<start_times[ls - n + i], end_times[le - n + i]>>]

\* [(float(start), float(end)) for start, end in zip(start_times, end_times)]
Zip(start_times, end_times) ==
    LET n == IF Len(start_times) < Len(end_times)
             THEN Len(start_times) ELSE Len(end_times)
    IN  [i \in 1..n |-> <<start_times[i], end_times[i]>>]

\* subprocess.run(..., check=False): a non-zero status raises nothing
CheckedRunIgnores(returncode) == FALSE

\* subprocess.run(..., check=True): a non-zero status raises CalledProcessError
CheckedRunRaises(returncode) == returncode # 0

\* run_command that reports the error and returns instead of exiting
RunCommandNeverExits(returncode, errtext) == FALSE

\* run_command: sys.exit(1) only on a non-zero status with error text
RunCommandExits(returncode, errtext) == returncode # 0 /\ errtext

\* ScanSilences with "dist <= min_dist": the last nearest interval wins a tie
RECURSIVE ScanSilencesLastWins(_, _, _, _, _)
ScanSilencesLastWins(sil, i, cur, target_split_time, acc) ==
    IF i > Len(sil) THEN acc.best
    ELSE LET start == sil[i][1]
             dist  == Abs(Mid(sil[i]) - target_split_time)
             take  == start > cur /\ (acc.best = <<>> \/ dist <= acc.min_dist)
         IN  ScanSilencesLastWins(sil, i + 1, cur, target_split_time,
                 IF take THEN [best |-> sil[i], min_dist |-> dist] ELSE acc)

\* ScanSilences that never compares with min_dist: the last eligible
\* interval of the list wins
RECURSIVE ScanSilencesLastEligible(_, _, _, _, _)
ScanSilencesLastEligible(sil, i, cur, target_split_time, acc) ==
    IF i > Len(sil) THEN acc.best
    ELSE LET start == sil[i][1]
             dist  == Abs(Mid(sil[i]) - target_split_time)
             take  == start > cur
         IN  ScanSilencesLastEligible(sil, i + 1, cur, target_split_time,
                 IF take THEN [best |-> sil[i], min_dist |-> dist] ELSE acc)

\* ScanSilences without the test start > current_pos
RECURSIVE ScanSilencesAnyStart(_, _, _, _, _)
ScanSilencesAnyStart(sil, i, cur, target_split_time, acc) ==
    IF i > Len(sil) THEN acc.best
    ELSE LET dist  == Abs(Mid(sil[i]) - target_split_time)
             take  == acc.best = <<>> \/ dist < acc.min_dist
         IN  ScanSilencesAnyStart(sil, i + 1, cur, target_split_time,
                 IF take THEN [best |-> sil[i], min_dist |-> dist] ELSE acc)

\* the for loop over silences; acc.best = <<>> is best_silence = None,
\* and then min_dist is float('inf')
RECURSIVE ScanSilences(_, _, _, _, _)
ScanSilences(sil, i, cur, target_split_time, acc) ==
    IF i > Len(sil) THEN acc.best
    ELSE LET start == sil[i][1]
             dist  == Abs(Mid(sil[i]) - target_split_time)
             take  == start > cur /\ (acc.best = <<>> \/ dist < acc.min_dist)
         IN  ScanSilences(sil, i + 1, cur, target_split_time,
                 IF take THEN [best |-> sil[i], min_dist |-> dist] ELSE acc)

BestSilence(sil, cur, target_split_time) ==
    ScanSilences(sil, 1, cur, target_split_time, [best |-> <<>>, min_dist |-> 0])

\* the body of the while loop up to the choice of split_point
SplitPoint(sil, cur, target, total) ==
    LET target_split_time == cur + target
        best_silence == BestSilence(sil, cur, target_split_time)
    IN  IF target_split_time >= total THEN total
        ELSE IF best_silence # <<>> THEN Mid(best_silence)
        ELSE total

\* TooShort with a threshold of half a second
TooShortHalf(cur, sp) == 2 * (sp - cur) < MinimumSegmentLength

\* if split_point - current_pos < 1.0: break
TooShort(cur, sp) == sp - cur < MinimumSegmentLength

\* ExtractCommand with the segment's length given to -to, as -t would take it
ExtractCommandLength(num, cur, sp) == [num |-> num, ss |-> cur, to |-> sp - cur]

\* the ffmpeg command line: -ss str(current_pos) -to str(split_point)
ExtractCommand(num, cur, sp) == [num |-> num, ss |-> cur, to |-> sp]

\* ClipInfo with clips numbered from zero
ClipInfoFromZero(num, cur) ==
    [filename |-> num - 1, source_start_time |-> Round4(cur)]

\* clip_info
ClipInfo(num, cur) == [filename |-> num, source_start_time |-> Round4(cur)]

----------------------------------------------------------------------------
(* The run *)

Init ==
    /\ pc = "main"
    /\ exit_code = 0
    /\ target_seconds = 0
    /\ probe_result = [returncode |-> 0, parses |-> FALSE, value |-> 0]
    /\ total_duration = 0
    /\ detect_result = [returncode |-> 0, errtext |-> FALSE, output |-> <<>>]
    /\ silences = <<>>
    /\ current_pos = 0
    /\ clip_num = 1
    /\ split_point = 0
    /\ clip_manifest = <<>>
    /\ extract_calls = <<>>
    /\ clip_files = {}
    /\ manifest_file = <<>>

Exit(code) == pc' = "exited" /\ exit_code' = code

\* __main__ up to the call of get_total_duration
ParseArgs ==
    /\ pc = "main"
    /\ \/ \E argc \in {3, 5} :
            /\ Exit(1)
            /\ UNCHANGED target_seconds
       \/ \E target_minutes \in DurationMinutes :
            /\ target_seconds' = target_minutes * 60
            /\ pc' = "probe"
            /\ UNCHANGED exit_code
    /\ UNCHANGED <<probe_result, total_duration, detect_result, silences,
                   current_pos, clip_num, split_point, clip_manifest,
                   extract_calls, clip_files, manifest_file>>

ProbeResults ==
    {[returncode |-> 1, parses |-> FALSE, value |-> 0],
     [returncode |-> 0, parses |-> FALSE, value |-> 0]}
    \cup {[returncode |-> 0, parses |-> TRUE, value |-> d] : d \in ProbeDurations}

GetTotalDuration ==
    /\ pc = "probe"
    /\ \E r \in ProbeResults :
         /\ probe_result' = r
         /\ IF CheckedRunRaises(r.returncode) \/ ~r.parses
            THEN Exit(1) /\ UNCHANGED total_duration
            ELSE /\ total_duration' = r.value
                 /\ pc' = "detect"
                 /\ UNCHANGED exit_code
    /\ UNCHANGED <<target_seconds, detect_result, silences, current_pos,
                   clip_num, split_point, clip_manifest, extract_calls,
                   clip_files, manifest_file>>

FindSilences ==
    /\ pc = "detect"
    /\ \E returncode \in {0, 1}, errtext \in BOOLEAN,
          f \in [1..Len(MarkerTimes) -> MarkerKinds] :
         LET output      == Stderr(f)
             start_times == FindAll("silence_start", output)
             end_times   == FindAll("silence_end", output)
         IN  /\ Len(output) <= MaxMarkers
             /\ detect_result' = [returncode |-> returncode,
                                  errtext |-> errtext, output |-> output]
             /\ IF RunCommandExits(returncode, errtext)
                THEN Exit(1) /\ UNCHANGED silences
                ELSE IF NoSilences(start_times, end_times)
                THEN Exit(1) /\ UNCHANGED silences
                ELSE /\ silences' = Zip(start_times, end_times)
                     /\ pc' = "loop"
                     /\ UNCHANGED exit_code
    /\ UNCHANGED <<target_seconds, probe_result, total_duration, current_pos,
                   clip_num, split_point, clip_manifest, extract_calls,
                   clip_files, manifest_file>>

\* PlanSplit that scans the silences as an unordered collection: any eligible
\* interval of minimum distance may be the one found
PlanSplitUnordered ==
    /\ pc = "loop"
    /\ IF current_pos < total_duration
       THEN LET tst == current_pos + target_seconds
                elig == {i \in 1..Len(silences) : silences[i][1] > current_pos}
                d(i) == Abs(Mid(silences[i]) - tst)
                near == {i \in elig : \A j \in elig : d(i) <= d(j)}
            IN  \E sp \in (IF tst >= total_duration \/ elig = {}
                            THEN {total_duration}
                            ELSE {Mid(silences[i]) : i \in near}) :
                    /\ split_point' = sp
                    /\ pc' = IF TooShort(current_pos, sp)
                             THEN "manifest" ELSE "extract"
       ELSE /\ pc' = "manifest"
            /\ UNCHANGED split_point
    /\ UNCHANGED <<exit_code, target_seconds, probe_result, total_duration,
                   detect_result, silences, current_pos, clip_num,
                   clip_manifest, extract_calls, clip_files, manifest_file>>

\* one pass from the while test to the break test
PlanSplit ==
    /\ pc = "loop"
    /\ IF current_pos < total_duration
       THEN LET sp == SplitPoint(silences, current_pos, target_seconds,
                                 total_duration)
            IN  /\ split_point' = sp
                /\ pc' = IF TooShort(current_pos, sp) THEN "manifest" ELSE "extract"
       ELSE /\ pc' = "manifest"
            /\ UNCHANGED split_point
    /\ UNCHANGED <<exit_code, target_seconds, probe_result, total_duration,
                   detect_result, silences, current_pos, clip_num,
                   clip_manifest, extract_calls, clip_files, manifest_file>>

\* the rest of the loop body: the stream copy, the manifest entry, the advance
ExtractClip ==
    /\ pc = "extract"
    /\ \E returncode \in {0, 1} :
         LET command == ExtractCommand(clip_num, current_pos, split_point)
         IN  /\ extract_calls' = Append(extract_calls,
                    [command |-> command, returncode |-> returncode])
             /\ IF CheckedRunRaises(returncode)
                THEN /\ Exit(1)
                     /\ UNCHANGED <<clip_files, clip_manifest, current_pos, clip_num>>
                ELSE /\ clip_files' = clip_files \cup {command}
                     /\ clip_manifest' = Append(clip_manifest,
                                                ClipInfo(clip_num, current_pos))
                     /\ current_pos' = split_point
                     /\ clip_num' = clip_num + 1
                     /\ pc' = "loop"
                     /\ UNCHANGED exit_code
    /\ UNCHANGED <<target_seconds, probe_result, total_duration, detect_result,
                   silences, split_point, manifest_file>>

\* open(manifest_filepath, 'w') and json.dump; the open may raise
WriteManifest ==
    /\ pc = "manifest"
    /\ \E opened \in BOOLEAN :
         IF opened
         THEN manifest_file' = <<clip_manifest>> /\ Exit(0)
         ELSE UNCHANGED manifest_file /\ Exit(1)
    /\ UNCHANGED <<target_seconds, probe_result, total_duration, detect_result,
                   silences, current_pos, clip_num, split_point, clip_manifest,
                   extract_calls, clip_files>>

Next ==
    \/ ParseArgs
    \/ GetTotalDuration
    \/ FindSilences
    \/ PlanSplit
    \/ ExtractClip
    \/ WriteManifest

Spec == Init /\ [][Next]_vars

----------------------------------------------------------------------------
(* Properties of the planner and the manifest *)

\* the commands of the stream copies invoked so far, in order
Clips == [i \in 1..Len(extract_calls) |-> extract_calls[i].command]

\* C1: the clips are contiguous and start at zero: the first source_start is
\* 0, each source_end is the next source_start, source_start strictly rises.
C1_Contiguous ==
    /\ Clips # <<>> => Clips[1].ss = 0
    /\ \A i \in 1..(Len(Clips) - 1) :
         /\ Clips[i].to = Clips[i + 1].ss
         /\ Clips[i].ss < Clips[i + 1].ss

C1_Witness == Len(Clips) >= 3 /\ Clips[3].ss > Clips[2].ss

\* every interval has start < end and lies within [0, total_duration]
SilencesWithin ==
    \A i \in 1..Len(silences) :
        /\ 0 <= silences[i][1]
        /\ silences[i][1] < silences[i][2]
        /\ silences[i][2] <= total_duration

\* C2: when planning ends, what is left after the last emitted source_end
\* (all of total_duration when no clip was emitted) is shorter than
\* minimum_segment_length, for every silence list within [0, total_duration]
\* (stated here for targets of at least minimum_segment_length).
C2_Coverage ==
    (pc = "manifest" /\ SilencesWithin /\ target_seconds >= MinimumSegmentLength)
        => total_duration - current_pos < MinimumSegmentLength

\* C3: every clip handed to extraction, produced or listed in the manifest
\* is at least 1.0 s long.
C3_MinimumLength ==
    /\ \A i \in 1..Len(Clips) : Clips[i].to - Clips[i].ss >= MinimumSegmentLength
    /\ \A c \in clip_files : c.to - c.ss >= MinimumSegmentLength
    /\ Len(clip_manifest) <= Len(Clips)

\* planning stopped by the discard rule after a clip was produced
C3_Witness ==
    /\ pc = "manifest"
    /\ clip_files # {}
    /\ current_pos < total_duration
    /\ split_point - current_pos < MinimumSegmentLength

Eligible(i) == silences[i][1] > current_pos

Dist(i) == Abs(Mid(silences[i]) - (current_pos + target_seconds))

\* interval i is eligible, nearest to the target, and first among the nearest
Chosen(i) ==
    /\ Eligible(i)
    /\ \A j \in 1..Len(silences) :
         Eligible(j) => /\ Dist(i) <= Dist(j)
                        /\ (j < i => Dist(j) > Dist(i))

\* C4: when the target lies before total_duration and some interval starts
\* after the cursor, the split point is the midpoint of the eligible interval
\* nearest to the target, the first in the list among equally near ones.
C4_NearestFirst ==
    [][(/\ pc = "loop"
        /\ current_pos < total_duration
        /\ current_pos + target_seconds < total_duration
        /\ \E i \in 1..Len(silences) : Eligible(i))
       => \E i \in 1..Len(silences) :
            Chosen(i) /\ split_point' = Mid(silences[i])]_vars

\* two eligible intervals with different midpoints tie, the first was taken
C4_Witness ==
    /\ pc = "extract"
    /\ current_pos + target_seconds < total_duration
    /\ \E i, j \in 1..Len(silences) :
         /\ i < j
         /\ Chosen(i)
         /\ Eligible(j)
         /\ Dist(j) = Dist(i)
         /\ Mid(silences[j]) # Mid(silences[i])
         /\ split_point = Mid(silences[i])

\* C5: a written manifest is the last thing the run did, holds one entry per
\* clip file produced, the i-th naming clip i with its source_start rounded
\* to 4 decimals, in strictly ascending source_start_time.
C5_Manifest ==
    manifest_file # <<>> =>
        LET m == manifest_file[1]
        IN  /\ pc = "exited"
            /\ Len(m) = Cardinality(clip_files)
            /\ Len(m) = Len(extract_calls)
            /\ \A i \in 1..Len(m) :
                 /\ m[i].filename = i
                 /\ \E c \in clip_files :
                      c.num = i /\ m[i].source_start_time = Round4(c.ss)
            /\ \A i \in 1..(Len(m) - 1) :
                 m[i].source_start_time < m[i + 1].source_start_time

C5_Witness ==
    /\ manifest_file # <<>>
    /\ Len(manifest_file[1]) >= 3
    /\ Cardinality(clip_files) = Len(manifest_file[1])

----------------------------------------------------------------------------
(* Properties of the failure paths, the pairing and the rounding *)

NothingPlanned ==
    /\ extract_calls = <<>>
    /\ clip_files = {}
    /\ clip_manifest = <<>>
    /\ manifest_file = <<>>
    /\ split_point = 0

ExitedWith1 == pc = "exited" /\ exit_code = 1

\* a failed stream copy is the last one, and ends the run without a manifest
CopyFailureEndsRun ==
    \A k \in 1..Len(extract_calls) :
        extract_calls[k].returncode # 0 =>
            /\ k = Len(extract_calls)
            /\ ExitedWith1
            /\ manifest_file = <<>>

\* C6 as stated: a non-zero exit of the probe, of the silence detection or
\* of a stream copy ends the run with exit code 1 and no later step runs.
C6_AnyFailureExits ==
    /\ probe_result.returncode # 0 =>
         ExitedWith1 /\ detect_result.output = <<>> /\ NothingPlanned
    /\ detect_result.returncode # 0 => ExitedWith1 /\ NothingPlanned
    /\ CopyFailureEndsRun

\* C6 amended: a non-zero exit of the probe or of a stream copy always ends
\* the run with exit code 1; a non-zero exit of the silence detection does so
\* when its stderr holds "Error" or "failed".
C6_FailureWithErrorTextExits ==
    /\ probe_result.returncode # 0 =>
         ExitedWith1 /\ detect_result.output = <<>> /\ NothingPlanned
    /\ (detect_result.returncode # 0 /\ detect_result.errtext) =>
         ExitedWith1 /\ silences = <<>> /\ NothingPlanned
    /\ CopyFailureEndsRun

\* the detection failed with error text although its output held a pair
C6_Witness ==
    /\ detect_result.returncode # 0
    /\ detect_result.errtext
    /\ ~NoSilences(FindAll("silence_start", detect_result.output),
                   FindAll("silence_end", detect_result.output))
    /\ ExitedWith1

\* the markers of one kind in the detector's output, in emission order
Markers(kind) ==
    LET OfKind(m) == m.kind = kind IN SelectSeq(detect_result.output, OfKind)

NumPairs ==
    IF Len(Markers("silence_start")) < Len(Markers("silence_end"))
    THEN Len(Markers("silence_start")) ELSE Len(Markers("silence_end"))

\* C7: while the probe's output has not parsed or detection has yielded no
\* pair, nothing is planned, extracted or written, and a run that has ended
\* has ended with exit status 1.
C7_NoPlanningWithoutInputs ==
    (~probe_result.parses \/ NumPairs = 0) =>
        /\ NothingPlanned
        /\ pc \in {"main", "probe", "detect", "exited"}
        /\ pc = "exited" => exit_code = 1

\* detection ran cleanly and found markers, but no pair
C7_Witness ==
    /\ pc = "exited"
    /\ probe_result.parses
    /\ detect_result.returncode = 0
    /\ detect_result.output # <<>>
    /\ NumPairs = 0

\* find_silences has returned or exited, not through run_command
DetectionParsed ==
    /\ probe_result.parses
    /\ pc \notin {"main", "probe", "detect"}
    /\ ~(detect_result.returncode # 0 /\ detect_result.errtext)

\* C8: the i-th start marker is paired with the i-th end marker, the result
\* holds min(#starts, #ends) intervals, and the run is aborted by
\* find_silences exactly when that count is zero.
C8_Pairing ==
    DetectionParsed =>
        IF NumPairs = 0
        THEN ExitedWith1 /\ silences = <<>>
        ELSE /\ Len(silences) = NumPairs
             /\ \A i \in 1..NumPairs :
                  silences[i] = <<Markers("silence_start")[i].t,
                                  Markers("silence_end")[i].t>>

\* 3 starts and 2 ends gave 2 intervals
C8_Witness ==
    /\ DetectionParsed
    /\ Len(Markers("silence_start")) = 3
    /\ Len(Markers("silence_end")) = 2
    /\ Len(silences) = 2
    /\ pc = "loop"

\* C9 as stated: each manifest entry's source_start_time equals the start
\* time passed to that clip's extraction and the end time passed to the
\* previous one.
C9_NoDrift ==
    \A i \in 1..Len(clip_manifest) :
        /\ clip_manifest[i].source_start_time = Clips[i].ss
        /\ i > 1 => clip_manifest[i].source_start_time = Clips[i - 1].to

ManifestQuantum == TicksPerSec \div (10 ^ ManifestDecimals)

\* C9 amended: each manifest entry's source_start_time is a multiple of
\* 0.0001 s within 0.00005 s of the start time passed to that clip's
\* extraction, and equals it when that time has at most 4 decimals.
C9_DriftBounded ==
    \A i \in 1..Len(clip_manifest) :
        LET m == clip_manifest[i].source_start_time
            x == Clips[i].ss
        IN  /\ m % ManifestQuantum = 0
            /\ 2 * Abs(m - x) <= ManifestQuantum
            /\ x % ManifestQuantum = 0 => m = x
            /\ i > 1 => x = Clips[i - 1].to

\* a clip starts at a cut point the manifest records differently
C9_Witness ==
    \E i \in 1..Len(clip_manifest) :
        /\ i > 1
        /\ clip_manifest[i].source_start_time # Clips[i].ss
        /\ Clips[i].ss = Mid(silences[1])

\* C10: when the stream copy of clip k fails, the run ends with exit code 1,
\* the files of clips 1..k-1 are exactly the clip files present, no later
\* clip is attempted and no manifest is written.
C10_CopyFailureAborts ==
    \A k \in 1..Len(extract_calls) :
        extract_calls[k].returncode # 0 =>
            /\ ExitedWith1
            /\ k = Len(extract_calls)
            /\ extract_calls[k].command.num = k
            /\ clip_files = {extract_calls[j].command : j \in 1..(k - 1)}
            /\ \A j \in 1..(k - 1) : extract_calls[j].command.num = j
            /\ manifest_file = <<>>

\* the third stream copy failed after two clips were written
C10_Witness ==
    /\ Len(extract_calls) = 3
    /\ extract_calls[3].returncode # 0
    /\ Cardinality(clip_files) = 2
    /\ pc = "exited"

----------------------------------------------------------------------------
(* Properties of the planner as a function of its inputs *)

\* the clip sequence the loop of split_audio yields from cursor cur and clip
\* number num, every stream copy succeeding
RECURSIVE PlanFrom(_, _, _, _, _)
PlanFrom(sil, cur, num, target, total) ==
    IF cur >= total THEN <<>>
    ELSE LET sp == SplitPoint(sil, cur, target, total)
         IN  IF TooShort(cur, sp) THEN <<>>
             ELSE <<ExtractCommand(num, cur, sp)>>
                  \o PlanFrom(sil, sp, num + 1, target, total)

IsPrefix(s, t) == Len(s) <= Len(t) /\ \A i \in 1..Len(s) : s[i] = t[i]

\* C11: the clip sequence of a run is determined by total_duration, the
\* target and the silence list: whatever run has these inputs issues the
\* same clips in the same order, all of them once planning has ended.
C11_Deterministic ==
    LET plan == PlanFrom(silences, 0, 1, target_seconds, total_duration)
    IN  /\ IsPrefix(Clips, plan)
        /\ pc = "manifest" => Clips = plan
        /\ pc = "extract" =>
             /\ Len(plan) > Len(Clips)
             /\ plan[Len(Clips) + 1] =
                    ExtractCommand(clip_num, current_pos, split_point)

\* planning ended after a step at which two nearest intervals tied
C11_Witness ==
    /\ pc = "manifest"
    /\ Len(Clips) >= 2
    /\ \E i, j \in 1..Len(silences) :
         /\ i < j
         /\ silences[i][1] > 0
         /\ Mid(silences[i]) # Mid(silences[j])
         /\ Abs(Mid(silences[i]) - target_seconds)
              = Abs(Mid(silences[j]) - target_seconds)
         /\ Clips[1].to = Mid(silences[i])

----------------------------------------------------------------------------
(* split_audio called on silence lists in any order *)

\* most intervals of a silence list passed to split_audio directly
MaxSilences == 3

\* intervals such a list may hold: (0.2, 1), (1, 3), (3.00014, 3.5), (3.5, 4.5)
PlannerIntervals ==
    {<<200000, 1000000>>, <<1000000, 3000000>>,
     <<3000140, 3500000>>, <<3500000, 4500000>>}

PlannerLists == UNION {[1..n -> PlannerIntervals] : n \in 1..MaxSilences}

\* the state in which split_audio starts, its arguments chosen freely
InitPlanner ==
    /\ pc = "loop"
    /\ exit_code = 0
    /\ target_seconds \in {m * 60 : m \in DurationMinutes}
    /\ total_duration \in ProbeDurations
    /\ probe_result = [returncode |-> 0, parses |-> TRUE, value |-> total_duration]
    /\ detect_result = [returncode |-> 0, errtext |-> FALSE, output |-> <<>>]
    /\ silences \in PlannerLists
    /\ current_pos = 0
    /\ clip_num = 1
    /\ split_point = 0
    /\ clip_manifest = <<>>
    /\ extract_calls = <<>>
    /\ clip_files = {}
    /\ manifest_file = <<>>

NextPlanner ==
    \/ PlanSplit
    \/ ExtractClip
    \/ WriteManifest

SpecPlanner == InitPlanner /\ [][NextPlanner]_vars

\* the lists that hold the intervals of sil in another order
Permutations(sil) ==
    LET n == Len(sil)
        bij == {p \in [1..n -> 1..n] : \A i, j \in 1..n : p[i] = p[j] => i = j}
    IN  {[i \in 1..n |-> sil[p[i]]] : p \in bij}

\* at cursor cur, two eligible intervals with different midpoints are
\* equidistant from target_split_time
TieAt(sil, cur, target) ==
    \E i, j \in 1..Len(sil) :
        /\ sil[i][1] > cur
        /\ sil[j][1] > cur
        /\ Mid(sil[i]) # Mid(sil[j])
        /\ Abs(Mid(sil[i]) - (cur + target)) = Abs(Mid(sil[j]) - (cur + target))

\* some planning step of the run on sil, from cursor cur on, meets a tie
RECURSIVE TieFrom(_, _, _, _)
TieFrom(sil, cur, target, total) ==
    IF cur >= total THEN FALSE
    ELSE LET sp == SplitPoint(sil, cur, target, total)
         IN  \/ (cur + target < total /\ TieAt(sil, cur, target))
             \/ (~TooShort(cur, sp) /\ TieFrom(sil, sp, target, total))

\* C12: a run on a silence list issues the clips that the planner yields for
\* every permutation of the list, provided no planning step on either list
\* meets two eligible intervals with different midpoints equidistant from
\* target_split_time.
C12_OrderIndependent ==
    pc = "manifest" =>
        \A perm \in Permutations(silences) :
            (/\ ~TieFrom(silences, 0, target_seconds, total_duration)
             /\ ~TieFrom(perm, 0, target_seconds, total_duration))
            => PlanFrom(perm, 0, 1, target_seconds, total_duration) = Clips

\* a run on three intervals out of chronological order, no tie, several clips
C12_Witness ==
    /\ pc = "manifest"
    /\ Len(silences) = 3
    /\ silences[1][1] > silences[2][1]
    /\ silences[2][1] < silences[3][1]
    /\ ~TieFrom(silences, 0, target_seconds, total_duration)
    /\ Len(Clips) >= 2
    /\ \E i \in 1..Len(Clips) : Clips[i].to = Mid(silences[1])

----------------------------------------------------------------------------
(* Termination *)

\* split_audio is sequential and every call it makes returns, so once it has
\* started, a step of it that can be taken is taken
SpecFair ==
    /\ Spec
    /\ WF_vars(PlanSplit)
    /\ WF_vars(ExtractClip)
    /\ WF_vars(WriteManifest)

\* a step of the loop stops planning or moves the cut at least 1.0 s on
LoopStepAdvances ==
    pc \in {"loop", "extract"} =>
        \/ pc' \in {"manifest", "exited"}
        \/ /\ pc' = "extract"
           /\ current_pos' = current_pos
           /\ split_point' >= current_pos + MinimumSegmentLength
        \/ /\ pc' = "loop"
           /\ current_pos' >= current_pos + MinimumSegmentLength

LoopAdvances == [][LoopStepAdvances]_vars

\* the loop, once entered, is left: for the manifest write or by an abort
RunEnds == (pc = "loop") ~> (pc \in {"manifest", "exited"})

----------------------------------------------------------------------------
(* Consumption of silences *)

\* the interval whose midpoint ended clip i, <<>> when the clip ended at
\* total_duration
Selected(i) ==
    LET cur == Clips[i].ss
    IN  IF cur + target_seconds >= total_duration THEN <<>>
        ELSE BestSilence(silences, cur, cur + target_seconds)

\* a source_end is total_duration or the midpoint of an interval that
\* starts after the clip's source_start
EndsAtLaterSilence ==
    \A i \in 1..Len(Clips) :
        \/ Clips[i].to = total_duration
        \/ \E k \in 1..Len(silences) :
             /\ silences[k][1] > Clips[i].ss
             /\ Clips[i].to = Mid(silences[k])

ClipsWithinSilences == Len(Clips) <= Len(silences) + 1

====
